---- MODULE Spec2Model ----
(***************************************************************************)
(* fastapi-gen: the scaffolding command of src/src/cli/__main__.py.        *)
(*                                                                         *)
(* A Python str (a name, a path component, a file's text) is a sequence    *)
(* of one-character strings.  A directory tree is a set of entries         *)
(* [path, kind, data]; path is the sequence of components below the        *)
(* tree's root.  File operations follow POSIX (rename(2) over an empty     *)
(* directory succeeds, os.linesep is LF).                                  *)
(***************************************************************************)
EXTENDS Integers, Sequences, FiniteSets, TLC

VARIABLES
    pc,              \* position of the running process in main
    name,            \* argument NAME
    template,        \* option --template
    cwdfs,           \* the working directory's tree (the destination is below <<name>>)
    tmpl,            \* the tree of the chosen template's directory (both tiers ship it)
    template_files,  \* main's local: "None", "installed", "installed_unverified", "dev"
    tiers,           \* what the two template locations hold, once main has looked
    procCwd,         \* the process's current directory: "start" or "dest"
    out,             \* lines written by click.echo, and the interpreter's traceback
    exit,            \* exit status, -1 while running
    failedAt,        \* the position at which the run failed, "" otherwise
    log,             \* calls made by this run, in order
    history,         \* final positions of the earlier runs
    fs0              \* cwdfs when this run started

vars == <<pc, name, template, cwdfs, tmpl, template_files, tiers, procCwd, out,
          exit, failedAt, log, history, fs0>>

---------------------------------------------------------------------------
\* Bounds of the model.

\* how many times the command is invoked in one behaviour
MaxRuns == 2
\* top-level items already copied when an I/O error stops copy_template
MaxCopiedBeforeError == 1
\* most fragments joined into one file's text (SpecText)
MaxFragments == 2
\* longest NAME built character by character (SpecNames)
MaxNameLen == 3

---------------------------------------------------------------------------
\* Characters.

Lower == {"a","b","c","d","e","f","g","h","i","j","k","l","m",
          "n","o","p","q","r","s","t","u","v","w","x","y","z"}
Upper == {"A","B","C","D","E","F","G","H","I","J","K","L","M",
          "N","O","P","Q","R","S","T","U","V","W","X","Y","Z"}
Digit == {"0","1","2","3","4","5","6","7","8","9"}
\* the class [a-zA-Z0-9_] of _pattern
WordChars == Lower \cup Upper \cup Digit \cup {"_"}
\* the class \s of the re module (the members that occur in the model)
Whitespace == {" ", "\t", "\n", "\r"}

StartsWith(s, p) == Len(s) >= Len(p) /\ SubSeq(s, 1, Len(p)) = p
EndsWith(s, p) == Len(s) >= Len(p) /\ SubSeq(s, Len(s) - Len(p) + 1, Len(s)) = p
Last(s) == s[Len(s)]
Min(S) == CHOOSE x \in S : \A y \in S : x <= y

---------------------------------------------------------------------------
\* Module constants.

_choices_and_more == {"hello_world", "advanced", "nlp", "langchain", "llama", "flask"}
_choices == {"hello_world", "advanced", "nlp", "langchain", "llama"}

_template_map ==
    [k \in {"hello_world", "advanced", "nlp", "langchain", "llama"} |->
        CASE k = "hello_world" -> <<"template-hello-world", <<"h","e","l","l","o","_","w","o","r","l","d">>>>
          [] k = "advanced"    -> <<"template-advanced", <<"a","d","v","a","n","c","e","d">>>>
          [] k = "nlp"         -> <<"template-nlp", <<"n","l","p">>>>
          [] k = "langchain"   -> <<"template-langchain", <<"l","a","n","g","c","h","a","i","n","_","a","p","p">>>>
          [] k = "llama"       -> <<"template-llama", <<"l","l","a","m","a","_","a","p","p">>>>]

exclude_patterns ==
    { <<"_","_","p","y","c","a","c","h","e","_","_">>, <<".","p","y","t","e","s","t","_","c","a","c","h","e">>, <<".","r","u","f","f","_","c","a","c","h","e">>, <<".","v","e","n","v">>,
      <<"v","e","n","v">>, <<".","g","i","t">>, <<"u","v",".","l","o","c","k">> }

\* os.linesep
linesep == <<"\n">>

---------------------------------------------------------------------------
\* Text functions.

\* re.match(_pattern, name) is not None.  "^" is the start of the string;
\* "$" matches at the end of the string and just before a newline that is
\* the last character.
is_identifier(nm) ==
    /\ nm # <<>>
    /\ nm[1] \notin Digit
    /\ \A i \in 1..Len(nm) : nm[i] \in WordChars
is_valid_name(nm) ==
    \E k \in 1..Len(nm) :
        /\ \A i \in 1..k : nm[i] \in WordChars
        /\ \/ k = Len(nm)
           \/ k = Len(nm) - 1 /\ nm[Len(nm)] = "\n"

\* str.replace(old, new): every occurrence, leftmost first, not overlapping.
RECURSIVE str_replace(_, _, _)
str_replace(s, old, new) ==
    IF Len(s) < Len(old) THEN s
    ELSE IF StartsWith(s, old)
         THEN new \o str_replace(SubSeq(s, Len(old) + 1, Len(s)), old, new)
         ELSE <<Head(s)>> \o str_replace(Tail(s), old, new)

\* Text-mode decoding with newline=None: CR LF and a lone CR are read as LF.
RECURSIVE universal_newlines(_)
universal_newlines(s) ==
    IF s = <<>> THEN <<>>
    ELSE IF Head(s) = "\r"
         THEN <<"\n">> \o universal_newlines(
                  IF Len(s) >= 2 /\ s[2] = "\n" THEN SubSeq(s, 3, Len(s)) ELSE Tail(s))
         ELSE <<Head(s)>> \o universal_newlines(Tail(s))

\* Path.read_text() and Path.write_text(): text mode, LF written as os.linesep.
read_text(data) == universal_newlines(data)
write_text(content) == str_replace(content, <<"\n">>, linesep)

\* First index at or after j that holds no whitespace (\s*, greedy).
SkipWs(c, j) ==
    CHOOSE k \in j..(Len(c) + 1) :
        /\ \A m \in j..(k - 1) : c[m] \in Whitespace
        /\ (k = Len(c) + 1 \/ c[k] \notin Whitespace)

\* Where a match of  name\s*=\s*"[^"]+  that starts at i ends (the index
\* after its last character), 0 when there is none.
NameMatchEnd(c, i) ==
    IF ~(i + 3 <= Len(c) /\ SubSeq(c, i, i + 3) = <<"n","a","m","e">>) THEN 0
    ELSE LET j2 == SkipWs(c, i + 4) IN
         IF ~(j2 <= Len(c) /\ c[j2] = "=") THEN 0
         ELSE LET j3 == SkipWs(c, j2 + 1) IN
              IF ~(j3 + 1 <= Len(c) /\ c[j3] = "\"" /\ c[j3 + 1] # "\"") THEN 0
              ELSE CHOOSE e \in (j3 + 2)..(Len(c) + 1) :
                       /\ \A m \in (j3 + 1)..(e - 1) : c[m] # "\""
                       /\ (e = Len(c) + 1 \/ c[e] = "\"")

NameMatches(c) == {i \in 1..Len(c) : NameMatchEnd(c, i) # 0}

\* re.sub(r'name\s*=\s*"[^"]+', f'name = "{new_name}', content, count=1)
re_sub_name(content, new_name) ==
    IF NameMatches(content) = {} THEN content
    ELSE LET i == Min(NameMatches(content))
             e == NameMatchEnd(content, i)
         IN SubSeq(content, 1, i - 1) \o <<"n","a","m","e"," ","="," ","\"">> \o new_name
              \o SubSeq(content, e, Len(content))

---------------------------------------------------------------------------
\* Trees.

Dir(p) == [path |-> p, kind |-> "dir", data |-> <<>>]
File(p, d) == [path |-> p, kind |-> "file", data |-> d]

Exists(fs, p) == \E e \in fs : e.path = p
IsDir(fs, p) == \E e \in fs : e.path = p /\ e.kind = "dir"
\* the entries directly inside directory p
Children(fs, p) == {e \in fs : Len(e.path) = Len(p) + 1 /\ StartsWith(e.path, p)}
\* p and everything below it
Under(fs, p) == {e \in fs : StartsWith(e.path, p)}
\* everything strictly below p
Below(fs, p) == {e \in fs : Len(e.path) > Len(p) /\ StartsWith(e.path, p)}
\* the entry at path p moved to the same place below q
Rebase(e, p, q) ==
    [path |-> q \o SubSeq(e.path, Len(p) + 1, Len(e.path)), kind |-> e.kind, data |-> e.data]

---------------------------------------------------------------------------
\* copy_template.

\* the ignore callback handed to shutil.copytree
ignore_nothing(directory, contents) == {}
ignore_function(directory, contents) == {nm \in contents : nm \in exclude_patterns}

\* shutil.copytree(src, dst, ignore=ignore_function, dirs_exist_ok=True):
\* the entries it creates in the destination.
RECURSIVE copytree(_, _, _)
copytree(tree, src, dst) ==
    LET entries == Children(tree, src)
        ignored == ignore_function(src, {Last(e.path) : e \in entries})
    IN {Dir(dst)} \cup
       UNION { IF e.kind = "dir"
               THEN copytree(tree, e.path, Append(dst, Last(e.path)))
               ELSE {File(Append(dst, Last(e.path)), e.data)}
               : e \in {c \in entries : Last(c.path) \notin ignored} }

\* the top-level items copy_template does not skip
copy_items_all(tree) == Children(tree, <<>>)
copy_items_by_prefix(tree) ==
    {item \in Children(tree, <<>>) :
        \A x \in exclude_patterns : ~StartsWith(Last(item.path), x)}
copy_items(tree) == {item \in Children(tree, <<>>) : Last(item.path) \notin exclude_patterns}

\* what copying one top-level item creates below dest_path
copy_item_into_cwd(tree, item, dest_path) ==
    IF item.kind = "dir"
    THEN copytree(tree, item.path, <<Last(item.path)>>)
    ELSE {File(<<Last(item.path)>>, item.data)}
copy_item(tree, item, dest_path) ==
    IF item.kind = "dir"
    THEN copytree(tree, item.path, Append(dest_path, Last(item.path)))
    ELSE {File(Append(dest_path, Last(item.path)), item.data)}

\* What is left of the template once items have been copied out of it:
\* shutil.copytree and shutil.copy2 open their source for reading only.
source_after_move(tree, items) == tree \ UNION {Under(tree, item.path) : item \in items}
source_after_copy(tree, items) == tree

\* copy_template(template_dir, dest_path): the entries created below dest_path
copy_template(tree, dest_path) ==
    UNION {copy_item(tree, item, dest_path) : item \in copy_items(tree)}

---------------------------------------------------------------------------
\* The rewrite steps, as functions from the tree before to the tree after.

\* a file's text passed through f: content = read_text(), content =
\* f(content), write_text(content); each assignment holds a value
Rewritten(fs, p, f(_)) ==
    {e \in fs : e.path # p} \cup
    {File(p, write_text(new)) :
        new \in {f(content) : content \in {read_text(e.data) : e \in {x \in fs : x.path = p}}}}

rename_package_in_pyproject(fs, pyproject_path, new_name) ==
    LET sub(content) == re_sub_name(content, new_name)
    IN Rewritten(fs, pyproject_path, sub)

update_scripts_in_pyproject(fs, pyproject_path, old_module, new_module) ==
    LET sub(content) == str_replace(content, Append(old_module, "."), Append(new_module, "."))
    IN Rewritten(fs, pyproject_path, sub)

\* Path.rename on POSIX: "same" (source and target are one path: nothing
\* happens), "move" (no target), "replace" (the target is an empty
\* directory), "error" (the target is not empty, or is a file: OSError).
rename_outcome(fs, old_src, new_src) ==
    IF old_src = new_src THEN "same"
    ELSE IF ~Exists(fs, new_src) THEN "move"
    ELSE IF IsDir(fs, old_src) /\ IsDir(fs, new_src) /\ Below(fs, new_src) = {} THEN "replace"
    ELSE IF ~IsDir(fs, old_src) /\ ~IsDir(fs, new_src) THEN "replace"
    ELSE "error"

\* the tree after old_src.rename(new_src) when it does not raise
renamed(fs, old_src, new_src) ==
    IF old_src = new_src THEN fs
    ELSE {e \in fs : ~StartsWith(e.path, old_src) /\ ~StartsWith(e.path, new_src)}
           \cup {Rebase(e, old_src, new_src) : e \in Under(fs, old_src)}

\* rename_src_directory(dest_path, old_name, new_name): does it call rename
src_rename_called(fs, dest_path, old_name, new_name) ==
    Exists(fs, dest_path \o <<<<"s","r","c">>, old_name>>)

\* (a rename that is never carried out)
rename_src_directory_noop(fs, dest_path, old_name, new_name) == fs
rename_src_directory(fs, dest_path, old_name, new_name) ==
    LET old_src == dest_path \o <<<<"s","r","c">>, old_name>>
        new_src == dest_path \o <<<<"s","r","c">>, new_name>>
    IN IF Exists(fs, old_src) THEN renamed(fs, old_src, new_src) ELSE fs

\* (a glob that matches every entry of the directory)
glob_any(fs, tests_dir) == {e.path : e \in Children(fs, tests_dir)}
\* tests_dir.glob("*.py")
glob_py(fs, tests_dir) ==
    {e.path : e \in {c \in Children(fs, tests_dir) : EndsWith(Last(c.path), <<".","p","y">>)}}

\* (a loop over every file below the directory, __init__.py included)
test_files_all(fs, tests_dir) == {e.path : e \in {c \in Below(fs, tests_dir) : c.kind = "file"}}
\* the files the loop of update_imports_in_tests rewrites
test_files(fs, tests_dir) ==
    {p \in glob_py(fs, tests_dir) : Last(p) # <<"_","_","i","n","i","t","_","_",".","p","y">>}

\* the two replacements of the loop body, in its order
replace_imports(content, old_module, new_module) ==
    LET first == {str_replace(content, <<"f","r","o","m"," ">> \o old_module \o <<".">>,
                                       <<"f","r","o","m"," ">> \o new_module \o <<".">>)}
    IN CHOOSE second \in {str_replace(c, <<"i","m","p","o","r","t"," ">> \o old_module,
                                         <<"i","m","p","o","r","t"," ">> \o new_module) : c \in first} : TRUE

update_imports_in_tests(fs, tests_dir, old_module, new_module) ==
    IF ~Exists(fs, tests_dir) THEN fs
    ELSE LET targets == test_files(fs, tests_dir)
             sub(content) == replace_imports(content, old_module, new_module)
         IN {e \in fs : e.path \notin targets} \cup
            UNION {Rewritten({e}, e.path, sub) : e \in {x \in fs : x.path \in targets}}

---------------------------------------------------------------------------
\* Inputs: the command line, the working directory and the template's tree.

\* the module name of a template key
module_of(key) == _template_map[key][2]

\* NAME arguments tried by Spec
NameInputs ==
    { <<"a","p","p">>, <<"n","l","p">>, <<"v","e","n","v">>, <<"a","p","p","\n">>, <<"b","a","d","-","n","a","m","e","!">>, <<>> }

\* --template arguments: the choices and one key click.Choice rejects
TemplateInputs == _choices \cup {"bogus"}

\* what the working directory holds before the first run: a file of another
\* project, and nothing, a directory or a file at NAME
CwdInputs(N) ==
    LET other == {File(<<<<"o","t","h","e","r",".","t","x","t">>>>, <<"o">>)}
    IN { other,
         other \cup {Dir(<<N>>), File(<<N, <<"k","e","e","p",".","t","x","t">>>>, <<"k">>)},
         other \cup {File(<<N>>, <<"f">>)} }

ManifestText(M) ==
    <<"n","a","m","e"," ","="," ","\"","t","p","l","\"","\n","s","t","a","r","t"," ","="," ","\"">> \o M \o <<".","m","a","i","n",":","a","p","p","\"","\n">>
TestText(M) ==
    <<"f","r","o","m"," ">> \o M \o <<".","m","a","i","n"," ","i","m","p","o","r","t"," ","a","p","p","\n","i","m","p","o","r","t"," ">> \o M \o <<"\n">>
ImportText(M) == <<"i","m","p","o","r","t"," ">> \o M \o <<"\n">>
CrlfText(M) == <<"i","m","p","o","r","t"," ">> \o M \o <<"\r","\n">>

ManifestOptions(M) ==
    { {}, {File(<<<<"p","y","p","r","o","j","e","c","t",".","t","o","m","l">>>>, ManifestText(M))} }

PackageOptions(M) ==
    LET pkg == { Dir(<<<<"s","r","c">>>>), Dir(<<<<"s","r","c">>, M>>),
                 File(<<<<"s","r","c">>, M, <<"m","a","i","n",".","p","y">>>>, ImportText(M)) }
    IN { {}, pkg,
         pkg \cup { Dir(<<<<"s","r","c">>, M, <<"_","_","p","y","c","a","c","h","e","_","_">>>>),
                    File(<<<<"s","r","c">>, M, <<"_","_","p","y","c","a","c","h","e","_","_">>, <<"m","a","i","n",".","p","y","c">>>>, <<"c">>) } }

\* a directory src/NAME shipped by the template itself
SiblingOptions(N) ==
    IF N = <<>> THEN {{}}
    ELSE { {}, { Dir(<<<<"s","r","c">>>>), Dir(<<<<"s","r","c">>, N>>) },
           { Dir(<<<<"s","r","c">>>>), Dir(<<<<"s","r","c">>, N>>),
             File(<<<<"s","r","c">>, N, <<"k","e","e","p",".","p","y">>>>, <<"k">>) } }

TestsOptions(M) ==
    LET tests == { Dir(<<<<"t","e","s","t","s">>>>),
                   File(<<<<"t","e","s","t","s">>, <<"t","e","s","t","_","m","a","i","n",".","p","y">>>>, TestText(M)),
                   File(<<<<"t","e","s","t","s">>, <<"_","_","i","n","i","t","_","_",".","p","y">>>>, ImportText(M)) }
    IN { {}, tests,
         tests \cup { File(<<<<"t","e","s","t","s">>, <<"n","o","t","e","s",".","t","x","t">>>>, ImportText(M)),
                      File(<<<<"t","e","s","t","s">>, <<"t","e","s","t","_","c","r","l","f",".","p","y">>>>, CrlfText(M)),
                      Dir(<<<<"t","e","s","t","s">>, <<"u","n","i","t">>>>),
                      File(<<<<"t","e","s","t","s">>, <<"u","n","i","t">>, <<"t","e","s","t","_","x",".","p","y">>>>, TestText(M)),
                      Dir(<<<<"t","e","s","t","s">>, <<".","p","y","t","e","s","t","_","c","a","c","h","e">>>>),
                      File(<<<<"t","e","s","t","s">>, <<".","p","y","t","e","s","t","_","c","a","c","h","e">>, <<"v">>>>, <<"v">>) } }

ExtraOptions ==
    { {}, { Dir(<<<<".","g","i","t">>>>), File(<<<<".","g","i","t">>, <<"c","o","n","f","i","g">>>>, <<"c">>),
            File(<<<<"u","v",".","l","o","c","k">>>>, <<"l">>), File(<<<<".","g","i","t","i","g","n","o","r","e">>>>, <<"g">>),
            Dir(<<<<"v","e","n","v","_","t","o","o","l","s">>>>), File(<<<<"v","e","n","v","_","t","o","o","l","s">>, <<"v","e","n","v">>>>, <<"v">>),
            Dir(<<<<".","v","e","n","v">>>>), File(<<<<".","v","e","n","v">>, <<"p","y","v","e","n","v",".","c","f","g">>>>, <<"p">>),
            Dir(<<<<"v","e","n","v","_","t","o","o","l","s">>, <<".","r","u","f","f","_","c","a","c","h","e">>>>) } }

\* the template trees tried by Spec
Trees(key, N) ==
    IF key \notin DOMAIN _template_map THEN {{}}
    ELSE LET M == module_of(key) IN
         { a \cup b \cup c \cup d \cup e :
             a \in ManifestOptions(M), b \in PackageOptions(M), c \in SiblingOptions(N),
             d \in TestsOptions(M), e \in ExtraOptions }

\* outcomes of the installed-tier attempt (lines 127-133): the path exists;
\* it does not; a handled error is raised before template_files is assigned
\* (resources.files, joinpath); one is raised after (Path(template_files))
InstalledOutcomes == {"exists", "missing", "raises_before", "raises_after"}

\* outcomes of subprocess.run(["git", "init"]): exit status 0, a non-zero
\* exit status, FileNotFoundError because there is no git executable
GitOutcomes == {"ok", "nonzero", "not_installed"}

ErrorLines == {"Error. Invalid name", "Error. Folder already exists", "Error. Template not found"}

---------------------------------------------------------------------------
\* The process.

dest_path == <<name>>

\* before line 126 runs, main has looked at neither template location
NotLooked == [installed |-> "unknown", dev |-> FALSE]

Start(n, t, fs, tree) ==
    /\ pc = "Idle"
    /\ name = n
    /\ template = t
    /\ cwdfs = fs
    /\ tmpl = tree
    /\ template_files = "None"
    /\ tiers = NotLooked
    /\ procCwd = "start"
    /\ out = <<>>
    /\ exit = -1
    /\ failedAt = ""
    /\ log = <<>>
    /\ history = <<>>
    /\ fs0 = fs

Init ==
    \E n \in NameInputs, t \in TemplateInputs :
        \E fs \in CwdInputs(n), tree \in Trees(t, n) : Start(n, t, fs, tree)

\* every text made of at most n of the fragments F, joined
RECURSIVE Texts(_, _)
Texts(F, n) ==
    IF n = 0 THEN {<<>>}
    ELSE LET T == Texts(F, n - 1) IN T \cup {t \o f : t \in T, f \in F}

ManifestFragments ==
    { <<"n","a","m","e"," ","="," ","\"","t","p","l","\"","\n">>, <<"n","a","m","e","=","\"","n","l","p",".","c","l","i","\"","\n">>, <<"s","t","a","r","t"," ","="," ","\"","n","l","p",".","m","a","i","n",":","a","p","p","\"","\n">>,
      <<"m","y","_","n","l","p",".","x","\n">>, <<"n","a","m","e"," ","="," ","\"","\"","\n">>, <<"n","i","c","k","n","a","m","e","\n","=","\n","\"","n","\"","\n">>, <<"x","\r","\n">> }

TestFragments ==
    { <<"f","r","o","m"," ","n","l","p",".","m","a","i","n"," ","i","m","p","o","r","t"," ","a","\n">>, <<"i","m","p","o","r","t"," ","n","l","p","\n">>, <<"i","m","p","o","r","t"," ","n","l","p","_","u","t","i","l","s","\n">>,
      <<"f","r","o","m"," ","n","l","p"," ","i","m","p","o","r","t"," ","b","\n">>, <<"i","m","p","o","r","t"," ","o","s","\r","\n">>, <<"f","r","o","m"," "," ","n","l","p",".","x"," ","i","m","p","o","r","t"," ","c","\n">> }

\* a template tree with manifest text m and the text t in every file of tests
TextTree(m, t) ==
    { File(<<<<"p","y","p","r","o","j","e","c","t",".","t","o","m","l">>>>, m),
      Dir(<<<<"s","r","c">>>>), Dir(<<<<"s","r","c">>, <<"n","l","p">>>>),
      File(<<<<"s","r","c">>, <<"n","l","p">>, <<"m","a","i","n",".","p","y">>>>, t),
      Dir(<<<<"t","e","s","t","s">>>>),
      File(<<<<"t","e","s","t","s">>, <<"t","e","s","t","_","a",".","p","y">>>>, t),
      File(<<<<"t","e","s","t","s">>, <<"_","_","i","n","i","t","_","_",".","p","y">>>>, t),
      File(<<<<"t","e","s","t","s">>, <<"n","o","t","e","s",".","t","x","t">>>>, t),
      Dir(<<<<"t","e","s","t","s">>, <<"u","n","i","t">>>>),
      File(<<<<"t","e","s","t","s">>, <<"u","n","i","t">>, <<"t","e","s","t","_","x",".","p","y">>>>, t) }

\* the template trees tried by SpecText: template nlp with varied texts
TextTrees ==
    {TextTree(m, TestText(<<"n","l","p">>)) : m \in Texts(ManifestFragments, MaxFragments)}
      \cup {TextTree(ManifestText(<<"n","l","p">>), t) : t \in Texts(TestFragments, MaxFragments)}

InitText ==
    \E n \in {<<"a","p","p">>, <<"n","l","p">>, <<"a"," ","b">>} :
        \E fs \in CwdInputs(n), tree \in TextTrees : Start(n, "nlp", fs, tree)

\* the characters NAME is built from in SpecNames: members of each class of
\* _pattern and characters outside it
NameAlphabet == {"a", "Z", "9", "_", "-", "\n"}

\* every NAME of at most MaxNameLen characters, one template and one tree
InitNames ==
    \E n \in Texts({<<c>> : c \in NameAlphabet}, MaxNameLen) :
        Start(n, "nlp", {File(<<<<"o","t","h","e","r",".","t","x","t">>>>, <<"o">>)},
              TextTree(ManifestText(<<"n","l","p">>), TestText(<<"n","l","p">>)))

\* (a failure that leaves the exit status of a success)
Fail_status0(at, line, status) ==
    /\ pc' = "Failed"
    /\ failedAt' = at
    /\ out' = Append(out, line)
    /\ exit' = 0
\* the run stops at position `at` with one more line of output
Fail(at, line, status) ==
    /\ pc' = "Failed"
    /\ failedAt' = at
    /\ out' = Append(out, line)
    /\ exit' = status

\* click parses the command line (lines 105-108)
Invoke ==
    /\ pc = "Idle"
    /\ log' = Append(log, "click.Choice")
    /\ IF template \in _choices
       THEN pc' = "Validating" /\ UNCHANGED <<out, exit, failedAt>>
       ELSE Fail("Idle", "Usage error", 2)
    /\ UNCHANGED <<name, template, cwdfs, tmpl, template_files, tiers, procCwd, history, fs0>>

\* lines 111-115
Validate ==
    /\ pc = "Validating"
    /\ log' = Append(log, "is_valid_name")
    /\ IF is_valid_name(name)
       THEN /\ pc' = "CheckingDestination"
            /\ out' = Append(out, "Creating new project")
            /\ UNCHANGED <<exit, failedAt>>
       ELSE Fail("Validating", "Error. Invalid name", 1)
    /\ UNCHANGED <<name, template, cwdfs, tmpl, template_files, tiers, procCwd, history, fs0>>

\* (no check that the destination exists)
CheckDestination_unchecked ==
    /\ pc = "CheckingDestination"
    /\ log' = Append(log, "dest_path.exists")
    /\ pc' = "Locating"
    /\ UNCHANGED <<out, exit, failedAt>>
    /\ UNCHANGED <<name, template, cwdfs, tmpl, template_files, tiers, procCwd, history, fs0>>
\* lines 117-120
CheckDestination ==
    /\ pc = "CheckingDestination"
    /\ log' = Append(log, "dest_path.exists")
    /\ IF Exists(cwdfs, dest_path)
       THEN Fail("CheckingDestination", "Error. Folder already exists", 1)
       ELSE pc' = "Locating" /\ UNCHANGED <<out, exit, failedAt>>
    /\ UNCHANGED <<name, template, cwdfs, tmpl, template_files, tiers, procCwd, history, fs0>>

\* template_files after the installed-tier attempt (lines 126-133)
installed_tier(inst) ==
    CASE inst = "exists" -> "installed"
      [] inst = "missing" -> "None"
      [] inst = "raises_before" -> "None"
      [] inst = "raises_after" -> "installed_unverified"

\* template_files after the development-tier attempt (lines 135-142)
dev_tier(tf, dev) == IF tf # "None" THEN tf ELSE IF dev THEN "dev" ELSE "None"

\* lines 122-142
Locate ==
    /\ pc = "Locating"
    /\ IF template \notin DOMAIN _template_map
       THEN \* _template_map[template] raises KeyError
            /\ Fail("Locating", "Traceback", 1)
            /\ UNCHANGED <<template_files, tiers, log>>
       ELSE \E inst \in InstalledOutcomes, dev \in BOOLEAN :
         LET tf1 == installed_tier(inst)
             tf2 == dev_tier(tf1, dev)
         IN /\ template_files' = tf2
            /\ tiers' = [installed |-> inst, dev |-> dev]
            /\ log' = log \o <<"resources.files">>
                          \o (IF tf1 = "None" THEN <<"dev_template_path.exists">> ELSE <<>>)
            /\ IF tf2 = "None"
               THEN Fail("Locating", "Error. Template not found", 1)
               ELSE pc' = "CreatingDestination" /\ UNCHANGED <<out, exit, failedAt>>
    /\ UNCHANGED <<name, template, cwdfs, tmpl, procCwd, history, fs0>>

\* line 145: dest_path.mkdir(parents=True)
CreateDestination ==
    /\ pc = "CreatingDestination"
    /\ log' = Append(log, "mkdir")
    /\ IF Exists(cwdfs, dest_path)
       THEN Fail("CreatingDestination", "Traceback", 1) /\ UNCHANGED cwdfs
       ELSE /\ cwdfs' = cwdfs \cup {Dir(dest_path)}
            /\ pc' = "Copying"
            /\ UNCHANGED <<out, exit, failedAt>>
    /\ UNCHANGED <<name, template, tmpl, template_files, tiers, procCwd, history, fs0>>

\* the sets of top-level items copy_template can have copied when it
\* returns or raises: all of them, or a few when an I/O error stops it
CopyProgress(tree) ==
    {copy_items(tree)} \cup
    {S \in SUBSET copy_items(tree) :
        Cardinality(S) <= MaxCopiedBeforeError /\ S # copy_items(tree)}


\* (a copy that removes the destination when it fails)
Copy_rollback ==
    /\ pc = "Copying"
    /\ IF template_files = "installed_unverified"
       THEN \* Path(template_files) raises TypeError again
            /\ out' = out \o <<"Copying template files...", "Traceback">>
            /\ pc' = "Failed" /\ failedAt' = "Copying" /\ exit' = 1
            /\ UNCHANGED <<cwdfs, tmpl, log>>
       ELSE \E copied \in CopyProgress(tmpl) :
            /\ log' = Append(log, "copy_template")
            /\ tmpl' = source_after_copy(tmpl, copied)
            /\ IF copied = copy_items(tmpl)
               THEN /\ cwdfs' = cwdfs \cup copy_template(tmpl, dest_path)
                    /\ pc' = "RewritingManifest"
                    /\ out' = Append(out, "Copying template files...")
                    /\ UNCHANGED <<exit, failedAt>>
               ELSE /\ cwdfs' = cwdfs \ Under(cwdfs, dest_path)
                    /\ out' = out \o <<"Copying template files...", "Traceback">>
                    /\ pc' = "Failed" /\ failedAt' = "Copying" /\ exit' = 1
    /\ UNCHANGED <<name, template, template_files, tiers, procCwd, history, fs0>>

\* lines 147-149
Copy ==
    /\ pc = "Copying"
    /\ IF template_files = "installed_unverified"
       THEN \* Path(template_files) raises TypeError again
            /\ out' = out \o <<"Copying template files...", "Traceback">>
            /\ pc' = "Failed" /\ failedAt' = "Copying" /\ exit' = 1
            /\ UNCHANGED <<cwdfs, tmpl, log>>
       ELSE \E copied \in CopyProgress(tmpl) :
            /\ log' = Append(log, "copy_template")
            /\ tmpl' = source_after_copy(tmpl, copied)
            /\ IF copied = copy_items(tmpl)
               THEN /\ cwdfs' = cwdfs \cup copy_template(tmpl, dest_path)
                    /\ pc' = "RewritingManifest"
                    /\ out' = Append(out, "Copying template files...")
                    /\ UNCHANGED <<exit, failedAt>>
               ELSE /\ cwdfs' = cwdfs \cup
                                  UNION {copy_item(tmpl, item, dest_path) : item \in copied}
                    /\ out' = out \o <<"Copying template files...", "Traceback">>
                    /\ pc' = "Failed" /\ failedAt' = "Copying" /\ exit' = 1
    /\ UNCHANGED <<name, template, template_files, tiers, procCwd, history, fs0>>


\* (the manifest step handing over to the test step)
RewriteManifest_skips_rename ==
    /\ pc = "RewritingManifest"
    /\ LET pyproject_path == Append(dest_path, <<"p","y","p","r","o","j","e","c","t",".","t","o","m","l">>)
           template_module_name == module_of(template)
       IN IF Exists(cwdfs, pyproject_path)
          THEN /\ out' = Append(out, "Renaming package")
               /\ cwdfs' = update_scripts_in_pyproject(
                               rename_package_in_pyproject(cwdfs, pyproject_path, name),
                               pyproject_path, template_module_name, name)
               /\ log' = log \o <<"pyproject_path.exists", "rename_package_in_pyproject",
                                  "update_scripts_in_pyproject">>
          ELSE /\ log' = Append(log, "pyproject_path.exists")
               /\ UNCHANGED <<out, cwdfs>>
    /\ pc' = "RewritingTests"
    /\ UNCHANGED <<name, template, tmpl, template_files, tiers, procCwd, exit, failedAt, history, fs0>>

\* lines 151-156
RewriteManifest ==
    /\ pc = "RewritingManifest"
    /\ LET pyproject_path == Append(dest_path, <<"p","y","p","r","o","j","e","c","t",".","t","o","m","l">>)
           template_module_name == module_of(template)
       IN IF Exists(cwdfs, pyproject_path)
          THEN /\ out' = Append(out, "Renaming package")
               /\ cwdfs' = update_scripts_in_pyproject(
                               rename_package_in_pyproject(cwdfs, pyproject_path, name),
                               pyproject_path, template_module_name, name)
               /\ log' = log \o <<"pyproject_path.exists", "rename_package_in_pyproject",
                                  "update_scripts_in_pyproject">>
          ELSE /\ log' = Append(log, "pyproject_path.exists")
               /\ UNCHANGED <<out, cwdfs>>
    /\ pc' = "RenamingSource"
    /\ UNCHANGED <<name, template, tmpl, template_files, tiers, procCwd, exit, failedAt, history, fs0>>

\* lines 158-160
RenameSource ==
    /\ pc = "RenamingSource"
    /\ LET template_module_name == module_of(template)
           old_src == dest_path \o <<<<"s","r","c">>, template_module_name>>
           new_src == dest_path \o <<<<"s","r","c">>, name>>
           called == src_rename_called(cwdfs, dest_path, template_module_name, name)
       IN /\ log' = log \o <<"rename_src_directory">> \o (IF called THEN <<"rename">> ELSE <<>>)
          /\ IF called /\ rename_outcome(cwdfs, old_src, new_src) = "error"
             THEN /\ out' = out \o <<"Renaming module", "Traceback">>
                  /\ pc' = "Failed" /\ failedAt' = "RenamingSource" /\ exit' = 1
                  /\ UNCHANGED cwdfs
             ELSE /\ out' = Append(out, "Renaming module")
                  /\ cwdfs' = rename_src_directory(cwdfs, dest_path, template_module_name, name)
                  /\ pc' = "RewritingTests"
                  /\ UNCHANGED <<exit, failedAt>>
    /\ UNCHANGED <<name, template, tmpl, template_files, tiers, procCwd, history, fs0>>

\* lines 162-165
RewriteTests ==
    /\ pc = "RewritingTests"
    /\ LET tests_dir == Append(dest_path, <<"t","e","s","t","s">>)
       IN IF Exists(cwdfs, tests_dir)
          THEN /\ cwdfs' = update_imports_in_tests(cwdfs, tests_dir, module_of(template), name)
               /\ log' = log \o <<"tests_dir.exists", "update_imports_in_tests">>
          ELSE /\ log' = Append(log, "tests_dir.exists")
               /\ UNCHANGED cwdfs
    /\ pc' = "InitializingRepo"
    /\ UNCHANGED <<name, template, tmpl, template_files, tiers, procCwd, out, exit, failedAt, history, fs0>>

\* os.chdir(path): the process's current directory afterwards
os_chdir_skipped(current, path) == current
os_chdir(current, path) == path

\* the directory that the process's current directory names
cwd_dir(current) == IF current = "dest" THEN dest_path ELSE <<>>

\* what a successful git init leaves in the directory it runs in
git_init(fs, dir) ==
    fs \cup {Dir(Append(dir, <<".","g","i","t">>)), File(dir \o <<<<".","g","i","t">>, <<"H","E","A","D">>>>, <<"r","e","f">>)}


\* (git init run again when it exits with a non-zero status)
InitRepo_retry ==
    /\ pc = "InitializingRepo"
    /\ procCwd' = os_chdir(procCwd, "dest")
    /\ log' = log \o <<"os.chdir", "git init">>
    /\ \E outcome \in GitOutcomes :
         CASE outcome = "ok" ->
                /\ cwdfs' = git_init(cwdfs, cwd_dir(procCwd'))
                /\ pc' = "Reporting"
                /\ UNCHANGED <<out, exit, failedAt>>
           [] outcome = "nonzero" ->
                /\ pc' = "InitializingRepo"
                /\ UNCHANGED <<cwdfs, out, exit, failedAt>>
           [] outcome = "not_installed" ->
                /\ Fail("InitializingRepo", "Traceback", 1)
                /\ UNCHANGED cwdfs
    /\ UNCHANGED <<name, template, tmpl, template_files, tiers, history, fs0>>

\* lines 167-169
InitRepo ==
    /\ pc = "InitializingRepo"
    /\ procCwd' = os_chdir(procCwd, "dest")
    /\ log' = log \o <<"os.chdir", "git init">>
    /\ \E outcome \in GitOutcomes :
         CASE outcome = "ok" ->
                /\ cwdfs' = git_init(cwdfs, cwd_dir(procCwd'))
                /\ pc' = "Reporting"
                /\ UNCHANGED <<out, exit, failedAt>>
           [] outcome = "nonzero" ->
                /\ pc' = "Reporting"
                /\ UNCHANGED <<cwdfs, out, exit, failedAt>>
           [] outcome = "not_installed" ->
                /\ Fail("InitializingRepo", "Traceback", 1)
                /\ UNCHANGED cwdfs
    /\ UNCHANGED <<name, template, tmpl, template_files, tiers, history, fs0>>

\* lines 171-200, and click's exit with status 0
Report ==
    /\ pc = "Reporting"
    /\ out' = Append(out, "Success!")
    /\ log' = Append(log, "welcome_message")
    /\ exit' = 0
    /\ pc' = "Done"
    /\ UNCHANGED <<name, template, cwdfs, tmpl, template_files, tiers, procCwd, failedAt, history, fs0>>

\* the command is invoked again, in the same working directory and with
\* the same arguments, after the earlier process has ended
Rerun ==
    /\ pc \in {"Done", "Failed"}
    /\ Len(history) + 1 < MaxRuns
    /\ history' = Append(history, pc)
    /\ fs0' = cwdfs
    /\ pc' = "Idle"
    /\ template_files' = "None"
    /\ tiers' = NotLooked
    /\ procCwd' = "start"
    /\ out' = <<>>
    /\ exit' = -1
    /\ failedAt' = ""
    /\ log' = <<>>
    /\ UNCHANGED <<name, template, cwdfs, tmpl>>

Next ==
    \/ Invoke
    \/ Validate
    \/ CheckDestination
    \/ Locate
    \/ CreateDestination
    \/ Copy
    \/ RewriteManifest
    \/ RenameSource
    \/ RewriteTests
    \/ InitRepo
    \/ Report
    \/ Rerun

Spec == Init /\ [][Next]_vars

\* the same program over texts drawn fragment by fragment
SpecText == InitText /\ [][Next]_vars

\* the same program over names drawn character by character
SpecNames == InitNames /\ [][Next]_vars

\* runs of template nlp for a new name, the template's own name and a
\* name that is rejected, in each kind of working directory
InitLive ==
    \E n \in {<<"a","p","p">>, <<"n","l","p">>, <<"b","a","d","-","n","a","m","e","!">>} :
        \E fs \in CwdInputs(n) :
            Start(n, "nlp", fs, TextTree(ManifestText(<<"n","l","p">>), TestText(<<"n","l","p">>)))

\* The interpreter runs main statement by statement: a step that can be
\* taken is taken.
FairSpec == InitLive /\ [][Next]_vars /\ WF_vars(Next)

---------------------------------------------------------------------------
\* Vocabulary of the properties.

Range(s) == {s[i] : i \in 1..Len(s)}
Count(s, x) == Cardinality({i \in 1..Len(s) : s[i] = x})
\* the destination tree, paths taken below the destination directory
DestTree == {Rebase(e, dest_path, <<>>) : e \in Below(cwdfs, dest_path)}
HasBadChar(nm) == \E i \in 1..Len(nm) : nm[i] \notin WordChars
\* a project name as the specification defines it
ValidName(nm) == nm # <<>> /\ ~HasBadChar(nm)
\* no component of the path is in the exclusion set
Unexcluded(p) == \A i \in 1..Len(p) : p[i] \notin exclude_patterns
\* the manifest's text in a tree, <<>> when there is none
ManifestOf(fs, p) == IF Exists(fs, p) THEN (CHOOSE e \in fs : e.path = p).data ELSE <<>>
\* where the value of the name declaration matched at i starts
NameValueStart(c, i) == SkipWs(c, SkipWs(c, i + 4) + 1) + 1
\* the values of the name declarations of a text from index `from` on, in order
RECURSIVE NameDecls(_, _)
NameDecls(c, from) ==
    LET S == {i \in NameMatches(c) : i >= from}
    IN IF S = {} THEN <<>>
       ELSE LET i == Min(S)
            IN <<SubSeq(c, NameValueStart(c, i), NameMatchEnd(c, i) - 1)>>
                 \o NameDecls(c, NameMatchEnd(c, i))
\* the two substitutions of test imports, every occurrence
Substituted(text, M, N) ==
    str_replace(str_replace(text, <<"f","r","o","m"," ">> \o M \o <<".">>, <<"f","r","o","m"," ">> \o N \o <<".">>),
                <<"i","m","p","o","r","t"," ">> \o M, <<"i","m","p","o","r","t"," ">> \o N)

---------------------------------------------------------------------------
\* Properties.

\* C1: a run whose NAME holds a character outside [A-Za-z0-9_] (a line
\* terminator included) fails at validation with exit status 1 and has
\* made no call after the validation and changed nothing on disk.
C1_BadNameRejected ==
    template \in _choices /\ HasBadChar(name) /\ pc \notin {"Idle", "Validating"}
      => /\ pc = "Failed" /\ failedAt = "Validating" /\ exit = 1
         /\ cwdfs = fs0
         /\ Range(log) \subseteq {"click.Choice", "is_valid_name"}

\* C2: when the working directory already holds an entry named as the
\* valid NAME, the run fails with exit status 1 at the destination check,
\* never creates the destination nor copies, and the tree stays as it was.
C2_ExistingDestinationUntouched ==
    template \in _choices /\ ValidName(name) /\ Exists(fs0, dest_path)
      => /\ cwdfs = fs0
         /\ pc \in {"Idle", "Validating", "CheckingDestination", "Failed"}
         /\ Range(log) \cap {"mkdir", "copy_template"} = {}
         /\ pc = "Failed" => failedAt = "CheckingDestination" /\ exit = 1

C2_Witness ==
    /\ ValidName(name) /\ history = <<>>
    /\ pc = "Failed" /\ failedAt = "CheckingDestination"
    /\ File(<<name, <<"k","e","e","p",".","t","x","t">>>>, <<"k">>) \in cwdfs

\* C3: right after copy_template returns, no path below the destination
\* has a component that is a member of the exclusion set.
C3_NoExcludedNameAfterCopy ==
    pc = "RewritingManifest" => \A e \in DestTree : Unexcluded(e.path)

C3_Witness ==
    /\ pc = "RewritingManifest"
    /\ Exists(tmpl, <<<<"s","r","c">>, module_of(template), <<"_","_","p","y","c","a","c","h","e","_","_">>, <<"m","a","i","n",".","p","y","c">>>>)
    /\ Exists(tmpl, <<<<".","g","i","t">>, <<"c","o","n","f","i","g">>>>)
    /\ Exists(tmpl, <<<<"v","e","n","v","_","t","o","o","l","s">>, <<"v","e","n","v">>>>)
    /\ Exists(DestTree, <<<<"s","r","c">>, module_of(template), <<"m","a","i","n",".","p","y">>>>)
    /\ Exists(DestTree, <<<<"v","e","n","v","_","t","o","o","l","s">>>>)

\* C4: a run that has called git init does not fail: it goes on to the
\* success message and ends in Done with exit status 0.
C4_RepoInitNeverFatal ==
    "git init" \in Range(log)
      => /\ pc \in {"Reporting", "Done"}
         /\ pc = "Done" => "Success!" \in Range(out) /\ exit = 0

\* C5: after the copy and the three rewrite steps, every file of the
\* destination other than the manifest and the rewritten test files holds
\* the content of its source file, and the files of the renamed package
\* are at the same relative paths below it.
C5_UntargetedFilesKeepContent ==
    pc = "InitializingRepo" =>
        LET M == module_of(template)
            moved == "rename" \in Range(log)
            IsTarget(p) ==
                \/ p = <<<<"p","y","p","r","o","j","e","c","t",".","t","o","m","l">>>>
                \/ /\ Len(p) = 2 /\ p[1] = <<"t","e","s","t","s">>
                   /\ EndsWith(p[2], <<".","p","y">>) /\ p[2] # <<"_","_","i","n","i","t","_","_",".","p","y">>
            Origin(p) ==
                IF moved /\ StartsWith(p, <<<<"s","r","c">>, name>>)
                THEN <<<<"s","r","c">>, M>> \o SubSeq(p, 3, Len(p)) ELSE p
        IN /\ \A e \in DestTree :
                e.kind = "file" /\ ~IsTarget(e.path) => File(Origin(e.path), e.data) \in tmpl
           /\ moved =>
                \A s \in Below(tmpl, <<<<"s","r","c">>, M>>) :
                    s.kind = "file" /\ Unexcluded(s.path)
                      => File(<<<<"s","r","c">>, name>> \o SubSeq(s.path, 3, Len(s.path)), s.data)
                           \in DestTree

C5_Witness ==
    /\ pc = "InitializingRepo"
    /\ name # module_of(template)
    /\ "rename" \in Range(log)
    /\ Exists(DestTree, <<<<"s","r","c">>, name, <<"m","a","i","n",".","p","y">>>>)
    /\ Exists(DestTree, <<<<"t","e","s","t","s">>, <<"_","_","i","n","i","t","_","_",".","p","y">>>>)
    /\ Exists(DestTree, <<<<"t","e","s","t","s">>, <<"u","n","i","t">>, <<"t","e","s","t","_","x",".","p","y">>>>)
    /\ Exists(DestTree, <<<<"p","y","p","r","o","j","e","c","t",".","t","o","m","l">>>>)

\* C6: in a run that ends in Done and whose template ships src/M, the
\* destination holds src/NAME with exactly what src/M held (copied), src/M
\* is gone when NAME differs from M, and rename was called exactly once.
C6_PackageRenamedOnce ==
    pc = "Done" /\ Exists(tmpl, <<<<"s","r","c">>, module_of(template)>>) =>
        LET M == module_of(template)
            held == {s \in Under(tmpl, <<<<"s","r","c">>, M>>) : Unexcluded(s.path)}
        IN /\ {Rebase(e, <<<<"s","r","c">>, name>>, <<>>) : e \in Under(DestTree, <<<<"s","r","c">>, name>>)}
                = {Rebase(s, <<<<"s","r","c">>, M>>, <<>>) : s \in held}
           /\ Count(log, "rename") = 1
           /\ name # M => ~Exists(DestTree, <<<<"s","r","c">>, M>>)

C6_Witness ==
    /\ pc = "Done"
    /\ name # module_of(template)
    /\ Exists(tmpl, <<<<"s","r","c">>, module_of(template), <<"_","_","p","y","c","a","c","h","e","_","_">>>>)
    /\ Exists(tmpl, <<<<"s","r","c">>, name>>)
    /\ Exists(DestTree, <<<<"s","r","c">>, name, <<"m","a","i","n",".","p","y">>>>)
    /\ Count(log, "rename") = 1

\* C7: after the two manifest steps, the first name declaration of the
\* manifest has the value NAME and every later name declaration has the
\* value it had in the template.
C7_OnlyFirstNameReplaced ==
    LET before == ManifestOf(tmpl, <<<<"p","y","p","r","o","j","e","c","t",".","t","o","m","l">>>>)
        after == ManifestOf(DestTree, <<<<"p","y","p","r","o","j","e","c","t",".","t","o","m","l">>>>)
    IN pc = "RenamingSource" /\ ValidName(name) /\ NameDecls(before, 1) # <<>>
         => NameDecls(after, 1) = <<name>> \o Tail(NameDecls(before, 1))

\* C8 as stated: every file directly in tests other than __init__.py holds
\* its text with the two substitutions made; __init__.py and the files of
\* subdirectories hold their text unchanged.
C8_EveryTestFileRewritten ==
    pc = "InitializingRepo" =>
        \A s \in Below(tmpl, <<<<"t","e","s","t","s">>>>) :
            s.kind = "file" /\ Unexcluded(s.path) =>
                LET target == Len(s.path) = 2 /\ Last(s.path) # <<"_","_","i","n","i","t","_","_",".","p","y">>
                IN File(s.path, IF target
                                THEN Substituted(s.data, module_of(template), name)
                                ELSE s.data) \in DestTree

\* C8 amended: every file directly in tests whose name ends in .py, other
\* than __init__.py, holds its text as read in text mode (CR LF and CR
\* read as LF) with the two substitutions made; __init__.py, the files
\* with another ending and the files of subdirectories are unchanged.
C8_PyTestFilesRewritten ==
    pc = "InitializingRepo" =>
        \A s \in Below(tmpl, <<<<"t","e","s","t","s">>>>) :
            s.kind = "file" /\ Unexcluded(s.path) =>
                LET target == /\ Len(s.path) = 2
                              /\ EndsWith(Last(s.path), <<".","p","y">>)
                              /\ Last(s.path) # <<"_","_","i","n","i","t","_","_",".","p","y">>
                IN File(s.path, IF target
                                THEN Substituted(universal_newlines(s.data),
                                                 module_of(template), name)
                                ELSE s.data) \in DestTree

C8_Witness ==
    /\ pc = "InitializingRepo"
    /\ name # module_of(template)
    /\ \E s \in tmpl, d \in DestTree :
         /\ s.path = <<<<"t","e","s","t","s">>, <<"t","e","s","t","_","a",".","p","y">>>> /\ d.path = s.path
         /\ d.data # s.data
         /\ File(<<<<"t","e","s","t","s">>, <<"n","o","t","e","s",".","t","x","t">>>>, s.data) \in DestTree
         /\ File(<<<<"t","e","s","t","s">>, <<"_","_","i","n","i","t","_","_",".","p","y">>>>, s.data) \in DestTree
         /\ File(<<<<"t","e","s","t","s">>, <<"u","n","i","t">>, <<"t","e","s","t","_","x",".","p","y">>>>, s.data) \in DestTree

\* C9: once a run has ended in Done, a later run with the same NAME and
\* template in the same working directory fails at the destination check
\* with exit status 1 and leaves the tree as the earlier run left it.
C9_SecondRunFailsAtDestination ==
    (\E i \in 1..Len(history) : history[i] = "Done")
      => /\ cwdfs = fs0
         /\ pc \in {"Idle", "Validating", "CheckingDestination", "Failed"}
         /\ pc = "Failed" => failedAt = "CheckingDestination" /\ exit = 1

C9_Witness ==
    /\ history = <<"Done">>
    /\ pc = "Failed" /\ failedAt = "CheckingDestination" /\ exit = 1
    /\ Exists(DestTree, <<<<".","g","i","t">>, <<"H","E","A","D">>>>)
    /\ Exists(DestTree, <<<<"s","r","c">>, name, <<"m","a","i","n",".","p","y">>>>)

\* C10: the exit status is 0 exactly in Done and the success banner is
\* printed exactly in Done; a run that fails at the name validation, at
\* the destination check or at the template lookup has printed exactly one
\* error line, no banner and no traceback, and exits with status 1.
C10_ExitStatusAndBanner ==
    /\ exit = 0 <=> pc = "Done"
    /\ "Success!" \in Range(out) <=> pc = "Done"
    /\ pc = "Failed" /\ failedAt \in {"Validating", "CheckingDestination", "Locating"}
         => /\ exit = 1
            /\ Cardinality({i \in 1..Len(out) : out[i] \in ErrorLines}) = 1
            /\ out[Len(out)] \in ErrorLines
            /\ Range(out) \cap {"Success!", "Traceback"} = {}

C10_Witness ==
    /\ history = <<"Done">>
    /\ pc = "Failed" /\ failedAt = "CheckingDestination"
    /\ out = <<"Creating new project", "Error. Folder already exists">>
    /\ exit = 1


\* C11: when neither the installed location nor the development location
\* holds the template, the run fails at the lookup with the line "Template
\* not found" and exit status 1, the destination has not been created and
\* the tree is as it was.
C11_NoTemplateNoSideEffect ==
    tiers.installed \in {"missing", "raises_before", "raises_after"} /\ ~tiers.dev
      => /\ pc = "Failed" /\ failedAt = "Locating" /\ exit = 1
         /\ Last(out) = "Error. Template not found"
         /\ ~Exists(cwdfs, dest_path)
         /\ cwdfs = fs0

\* C12: the installed location wins when it exists, whatever the
\* development location holds; when the installed attempt gives no existing
\* path (it is missing, or resolving it raises) and the development
\* location exists, the development location is used.
C12_FirstTierThatExistsWins ==
    /\ tiers.installed = "exists" => template_files = "installed"
    /\ tiers.installed \in {"missing", "raises_before", "raises_after"} /\ tiers.dev
         => template_files = "dev"

\* C13: right after copy_template returns, every file and directory of the
\* template whose own name and whose ancestors' names are all outside the
\* exclusion set is in the destination at the same relative path, with the
\* same kind and content; a name that only contains an excluded name
\* (.gitignore, venv_tools) is copied.
C13_UnexcludedSourceCopied ==
    pc = "RewritingManifest" =>
        \A s \in tmpl : Unexcluded(s.path) => s \in DestTree

C13_Witness ==
    /\ pc = "RewritingManifest"
    /\ Exists(tmpl, <<<<".","g","i","t">>, <<"c","o","n","f","i","g">>>>)
    /\ \E e \in DestTree : e.path = <<<<".","g","i","t","i","g","n","o","r","e">>>> /\ e.kind = "file"
    /\ IsDir(DestTree, <<<<"v","e","n","v","_","t","o","o","l","s">>>>)
    /\ Exists(DestTree, <<<<"t","e","s","t","s">>, <<"u","n","i","t">>, <<"t","e","s","t","_","x",".","p","y">>>>)
    /\ ~Exists(DestTree, <<<<"v","e","n","v","_","t","o","o","l","s">>, <<"v","e","n","v">>>>)

AfterCreation ==
    {"Copying", "RewritingManifest", "RenamingSource", "RewritingTests",
     "InitializingRepo", "Reporting", "Done"}

\* C15 (as stated): from the creation of the destination to Done, for
\* every valid NAME, no path below the destination has a component that is
\* a member of the exclusion set.
C15_NoExcludedNameUnderDestination ==
    ValidName(name) /\ pc \in AfterCreation
      => \A e \in DestTree : Unexcluded(e.path)

\* C15 (amended): from the creation of the destination to Done, for every
\* valid NAME, a path below the destination has a component in the
\* exclusion set only in two cases: the component is src/NAME, made by the
\* rename when NAME is itself in the set, or it is the .git directory at
\* the destination's root that git init has made.
C15_ExcludedNamesOnlyFromRenameAndGit ==
    ValidName(name) /\ pc \in AfterCreation
      => \A e \in DestTree : \A i \in 1..Len(e.path) :
            e.path[i] \in exclude_patterns
              => IF i = 1
                 THEN e.path[1] = <<".","g","i","t">> /\ pc \in {"Reporting", "Done"}
                 ELSE /\ i = 2 /\ e.path[1] = <<"s","r","c">> /\ e.path[2] = name
                      /\ pc \in {"RewritingTests", "InitializingRepo", "Reporting", "Done"}

C15_Witness ==
    /\ pc = "Done"
    /\ name = <<"v","e","n","v">>
    /\ Exists(tmpl, <<<<".","g","i","t">>, <<"c","o","n","f","i","g">>>>)
    /\ Exists(tmpl, <<<<"s","r","c">>, module_of(template), <<"_","_","p","y","c","a","c","h","e","_","_">>, <<"m","a","i","n",".","p","y","c">>>>)
    /\ Exists(DestTree, <<<<"s","r","c">>, <<"v","e","n","v">>, <<"m","a","i","n",".","p","y">>>>)
    /\ Exists(DestTree, <<<<".","g","i","t">>, <<"H","E","A","D">>>>)
    /\ ~Exists(DestTree, <<<<".","g","i","t">>, <<"c","o","n","f","i","g">>>>)

\* the text names module M as the target of an import: "import M" or
\* "from M" followed by the end of the module's name
ImportsModule(c, M) ==
    \E i \in 1..Len(c) :
        LET rest == SubSeq(c, i, Len(c))
            imp == <<"i","m","p","o","r","t"," ">> \o M
            frm == <<"f","r","o","m"," ">> \o M
        IN \/ /\ StartsWith(rest, imp)
              /\ (Len(rest) = Len(imp) \/ rest[Len(imp) + 1] \notin WordChars)
           \/ /\ StartsWith(rest, frm)
              /\ Len(rest) > Len(frm) /\ rest[Len(frm) + 1] \in {".", " "}

\* C16: after the rewrite steps of a run whose NAME differs from the
\* template's module M, no file below the destination (a test at any
\* depth, a source file) names M as the target of an import, in any of the
\* forms "from M import x", "from M.x import y", "import M".
C16_NoImportOfTemplateModule ==
    pc = "InitializingRepo" /\ name # module_of(template)
      => \A e \in DestTree :
            e.kind = "file" => ~ImportsModule(e.data, module_of(template))

\* C17: for a template that lacks the manifest, the tests directory or
\* src/M, the step of the missing artifact makes no call and raises no
\* error, the run does not fail once the copy is complete (a collision of
\* the rename apart) and ends in Done, and in Done the destination is the
\* filtered copy, changed only in the manifest and the test files that a
\* step was applied to, with src/M moved to src/NAME when it was shipped.
C17_MissingArtifactsTolerated ==
    LET M == module_of(template)
        manifest == Exists(tmpl, <<<<"p","y","p","r","o","j","e","c","t",".","t","o","m","l">>>>)
        tests == Exists(tmpl, <<<<"t","e","s","t","s">>>>)
        package == Exists(tmpl, <<<<"s","r","c">>, M>>)
        filtered == {s \in tmpl : Unexcluded(s.path)}
        IsTarget(p) ==
            \/ p = <<<<"p","y","p","r","o","j","e","c","t",".","t","o","m","l">>>>
            \/ Len(p) = 2 /\ p[1] = <<"t","e","s","t","s">> /\ EndsWith(p[2], <<".","p","y">>)
        Moved(p) ==
            IF package /\ StartsWith(p, <<<<"s","r","c">>, M>>)
            THEN <<<<"s","r","c">>, name>> \o SubSeq(p, 3, Len(p)) ELSE p
        made == {e \in DestTree : e.path[1] # <<".","g","i","t">>}
    IN template \in _choices /\ ~(manifest /\ tests /\ package) =>
        /\ pc = "Failed" =>
              failedAt \in {"Validating", "CheckingDestination", "Locating",
                            "CreatingDestination", "Copying", "RenamingSource"}
        /\ ~manifest => Range(log) \cap {"rename_package_in_pyproject",
                                         "update_scripts_in_pyproject"} = {}
        /\ ~tests => "update_imports_in_tests" \notin Range(log)
        /\ ~package => "rename" \notin Range(log)
        /\ pc = "Done" =>
              /\ {e.path : e \in made} = {Moved(s.path) : s \in filtered}
              /\ \A s \in filtered :
                    s.kind = "dir" \/ IsTarget(s.path)
                       \/ File(Moved(s.path), s.data) \in made

\* C18: the validation lets through every non-empty NAME made only of
\* ASCII letters, digits and underscores, whatever its length and its
\* first character, and rejects the empty NAME with exit status 1.
C18_WordNamesAccepted ==
    template \in _choices /\ pc \notin {"Idle", "Validating"} =>
        /\ ValidName(name) => ~(pc = "Failed" /\ failedAt = "Validating")
        /\ name = <<>> => pc = "Failed" /\ failedAt = "Validating" /\ exit = 1

C18_Witness ==
    /\ pc = "Done"
    /\ ValidName(name)
    /\ Len(name) >= 2
    /\ name[1] \in Digit
    /\ "_" \in Range(name)

\* the call that stands for each step of a run, in the order of the steps
StepCalls ==
    <<"is_valid_name", "resources.files", "mkdir", "copy_template",
      "rename_package_in_pyproject", "rename_src_directory",
      "update_imports_in_tests", "git init", "welcome_message">>
\* the steps a run has made, in the order it made them
StepsMade == LET IsStep(x) == x \in Range(StepCalls) IN SelectSeq(log, IsStep)
IsPrefix(s, t) == Len(s) <= Len(t) /\ SubSeq(t, 1, Len(s)) = s

\* C19 (as stated): a run that ends in Done has made the nine steps in
\* their order, each once, none skipped.
C19_AllStepsOnceInOrder ==
    pc = "Done" => StepsMade = StepCalls

\* C19 (amended): the steps of a run are made in the fixed order and none
\* twice; a run that ends in Done has made all of them, except the
\* manifest rewrite when the template has no manifest and the test-import
\* rewrite when it has no tests directory.
C19_StepsInOrderSkippingAbsent ==
    LET Applies(x) ==
            /\ x = "rename_package_in_pyproject" => Exists(tmpl, <<<<"p","y","p","r","o","j","e","c","t",".","t","o","m","l">>>>)
            /\ x = "update_imports_in_tests" => Exists(tmpl, <<<<"t","e","s","t","s">>>>)
        due == SelectSeq(StepCalls, Applies)
    IN template \in _choices =>
         /\ IsPrefix(StepsMade, due)
         /\ pc = "Done" => StepsMade = due

C19_Witness ==
    /\ pc = "Done"
    /\ ~Exists(tmpl, <<<<"p","y","p","r","o","j","e","c","t",".","t","o","m","l">>>>)
    /\ Exists(tmpl, <<<<"t","e","s","t","s">>>>)
    /\ Len(StepsMade) = Len(StepCalls) - 1
    /\ "rename" \in Range(log)

\* the positions at which a run can fail once the destination exists
FatalAfterCreation == {"Copying", "RenamingSource", "InitializingRepo"}
\* the calls of the steps that follow the step at a position
CallsAfter(at) ==
    CASE at = "Copying" ->
            {"pyproject_path.exists", "rename_package_in_pyproject",
             "update_scripts_in_pyproject", "rename_src_directory", "rename",
             "tests_dir.exists", "update_imports_in_tests", "os.chdir", "git init",
             "welcome_message"}
      [] at = "RenamingSource" ->
            {"tests_dir.exists", "update_imports_in_tests", "os.chdir", "git init",
             "welcome_message"}
      [] OTHER -> {"welcome_message"}

\* a run that has failed after the destination was created has made no
\* call of a later step, made no call twice, and printed no banner
C20_Stopped ==
    pc = "Failed" /\ failedAt \in FatalAfterCreation
      => /\ exit = 1
         /\ Last(out) = "Traceback" /\ "Success!" \notin Range(out)
         /\ Range(log) \cap CallsAfter(failedAt) = {}
         /\ \A x \in Range(log) : Count(log, x) = 1
         /\ IsDir(cwdfs, dest_path)

\* the step that fails removes nothing of what the tree held before it,
\* and once the run has failed the tree is left as it is
C20_Kept ==
    /\ pc # "Failed" /\ pc' = "Failed" /\ failedAt' \in FatalAfterCreation
         => \A e \in cwdfs : Exists(cwdfs', e.path)
    /\ pc = "Failed" => cwdfs' = cwdfs /\ pc' \in {"Failed", "Idle"}

\* C20: an error during the copy, or a later fatal error, ends the run at
\* once in Failed: no later step is made, no step is made twice, there is no
\* success message, and what was written below the destination stays.
C20_FatalErrorStopsAndKeeps == []C20_Stopped /\ [][C20_Kept]_vars

C20_Witness ==
    /\ pc = "Failed" /\ failedAt = "Copying"
    /\ template_files \in {"installed", "dev"}
    /\ \E e \in DestTree : e.kind = "file"
    /\ \E item \in copy_items(tmpl) : ~Exists(DestTree, item.path)
    /\ log[Len(log)] = "copy_template"

\* C21 (as stated): the failure for a destination that already exists is
\* raised only after the template has been resolved.
C21_DestinationFailureAfterLookup ==
    "Error. Folder already exists" \in Range(out)
      => "resources.files" \in Range(log) /\ template_files # "None"

\* C21 (amended): a run with a valid NAME whose destination already exists
\* fails with the folder-already-exists line at the check that follows the
\* validation, before either template location has been looked at, so it
\* never prints the template-not-found line.
C21_DestinationCheckedBeforeLookup ==
    template \in _choices /\ ValidName(name) /\ Exists(fs0, dest_path)
       /\ pc \notin {"Idle", "Validating", "CheckingDestination"}
      => /\ pc = "Failed" /\ failedAt = "CheckingDestination" /\ exit = 1
         /\ out = <<"Creating new project", "Error. Folder already exists">>
         /\ tiers = NotLooked /\ template_files = "None"
         /\ Range(log) \cap {"resources.files", "dev_template_path.exists"} = {}

C21_Witness ==
    /\ history = <<>>
    /\ pc = "Failed" /\ failedAt = "CheckingDestination"
    /\ File(<<name>>, <<"f">>) \in cwdfs
    /\ Last(out) = "Error. Folder already exists"
    /\ tiers = NotLooked

\* the text with old replaced by new wherever old, followed by a dot,
\* starts a dotted path: at the start of the text or after a character that
\* is neither a word character nor a dot
RECURSIVE PrefixReplaced(_, _, _, _)
PrefixReplaced(s, old, new, atStart) ==
    IF s = <<>> THEN <<>>
    ELSE IF atStart /\ StartsWith(s, Append(old, "."))
         THEN Append(new, ".")
                \o PrefixReplaced(SubSeq(s, Len(old) + 2, Len(s)), old, new, FALSE)
         ELSE <<Head(s)>>
                \o PrefixReplaced(Tail(s), old, new, Head(s) \notin WordChars \cup {"."})

\* C22: update_scripts_in_pyproject turns the manifest it is given into
\* the text in which M is replaced by NAME at every place where "M." starts
\* a dotted path, and in which nothing else differs (an identifier that
\* only ends in M, such as my_M, stays).
C22_OnlyDottedPrefixReplaced ==
    LET M == module_of(template)
        p == <<<<"p","y","p","r","o","j","e","c","t",".","t","o","m","l">>>>
        given == ManifestOf(rename_package_in_pyproject(tmpl, p, name), p)
        after == ManifestOf(DestTree, p)
    IN pc = "RenamingSource" /\ ValidName(name) /\ Exists(tmpl, p)
         => after = write_text(PrefixReplaced(read_text(given), M, name, TRUE))

\* the position of the only occurrence of a call in the log
IndexOf(s, x) == CHOOSE i \in 1..Len(s) : s[i] = x

\* C23: a run that has gone through the rewrite steps has called git init
\* exactly once, with the destination as the process's current directory
\* and after every rewrite call; when git succeeds the repository is made
\* in the destination and nowhere else; a run that has not finished the
\* rewrite steps, or failed before them, has not called it.
C23_RepoInitOnceInDestination ==
    LET rewrites == {"rename_package_in_pyproject", "update_scripts_in_pyproject",
                     "rename_src_directory", "rename", "update_imports_in_tests"}
        through == \/ pc \in {"Reporting", "Done"}
                   \/ pc = "Failed" /\ failedAt = "InitializingRepo"
    IN /\ through =>
            /\ Count(log, "git init") = 1
            /\ procCwd = "dest"
            /\ IndexOf(log, "os.chdir") = IndexOf(log, "git init") - 1
            /\ \A i \in 1..Len(log) :
                  log[i] \in rewrites => i < IndexOf(log, "git init")
            /\ history = <<>> => ~Exists(cwdfs, <<<<".","g","i","t">>>>)
            /\ pc = "Failed" => ~Exists(DestTree, <<<<".","g","i","t">>>>)
       /\ ~through => "git init" \notin Range(log) /\ procCwd = "start"

C23_Witness ==
    /\ pc = "Done"
    /\ procCwd = "dest"
    /\ history = <<>>
    /\ Exists(DestTree, <<<<".","g","i","t">>, <<"H","E","A","D">>>>)
    /\ "update_imports_in_tests" \in Range(log)
    /\ "rename_package_in_pyproject" \in Range(log)

\* the order of the positions of main
Rank(p) ==
    CASE p = "Idle" -> 0
      [] p = "Validating" -> 1
      [] p = "CheckingDestination" -> 2
      [] p = "Locating" -> 3
      [] p = "CreatingDestination" -> 4
      [] p = "Copying" -> 5
      [] p = "RewritingManifest" -> 6
      [] p = "RenamingSource" -> 7
      [] p = "RewritingTests" -> 8
      [] p = "InitializingRepo" -> 9
      [] p = "Reporting" -> 10
      [] OTHER -> 11
Terminal == {"Done", "Failed"}

\* every step of a run moves to a later position; Done and Failed are
\* left only by a new invocation of the command
C24_Forward ==
    IF pc \in Terminal
    THEN pc' = "Idle" /\ history' = Append(history, pc)
    ELSE Rank(pc') > Rank(pc)

\* C24: every run ends in Done or in Failed: each step moves to a later
\* position of the pipeline, so that no position is entered twice and no
\* step is made again, a run that has ended takes no further step, and a
\* run that has started reaches Done or Failed.
C24_RunTerminates ==
    /\ [][C24_Forward]_vars
    /\ [](pc \in Terminal => exit \in {0, 1, 2})
    /\ \A r \in 0..(MaxRuns - 1) :
          (Len(history) = r /\ pc = "Idle") ~> (Len(history) = r /\ pc \in Terminal)

C24_Witness ==
    /\ history = <<"Failed">>
    /\ pc = "Done" /\ exit = 0
    /\ Last(log) = "welcome_message"
    /\ Rank(pc) = 11

\* C25: when the rename runs with NAME different from M and the copied
\* tree holds a directory src/NAME next to src/M, the run fails at the
\* rename, and src/M and src/NAME both still hold what was copied into them.
C25_RenameCollisionFatal ==
    LET M == module_of(template)
        old == <<<<"s","r","c">>, M>>
        new == <<<<"s","r","c">>, name>>
        Copied(p) == {s \in Under(tmpl, p) : Unexcluded(s.path)}
    IN /\ template \in _choices /\ ValidName(name) /\ name # M
       /\ name \notin exclude_patterns
       /\ Exists(tmpl, old) /\ IsDir(tmpl, new)
       /\ "rename_src_directory" \in Range(log)
       => /\ pc = "Failed" /\ failedAt = "RenamingSource" /\ exit = 1
          /\ Under(DestTree, old) = Copied(old)
          /\ Under(DestTree, new) = Copied(new)

\* C26: a run that creates the destination holds a template path that one
\* of the two tiers has found to exist; and when the installed attempt has
\* raised a handled error, at whatever point, the development location has
\* been looked at.
C26_CopySourceVerified ==
    /\ pc = "CreatingDestination" \/ "mkdir" \in Range(log)
         => template_files \in {"installed", "dev"}
    /\ tiers.installed \in {"raises_before", "raises_after"}
         => "dev_template_path.exists" \in Range(log)

\* the entries of a tree that are not the destination nor below it
Outside(fs) == {e \in fs : ~StartsWith(e.path, dest_path)}

\* C27: whatever a run changes on disk is the destination or below it:
\* the other entries of the working directory are at every moment those
\* the run started with, and no step changes the template's tree.
C27_MutationsConfinedToDestination ==
    /\ [](Outside(cwdfs) = Outside(fs0))
    /\ [][tmpl' = tmpl /\ Outside(cwdfs') = Outside(cwdfs)]_vars

C27_Witness ==
    /\ pc = "Done"
    /\ history = <<>>
    /\ File(<<<<"o","t","h","e","r",".","t","x","t">>>>, <<"o">>) \in Outside(cwdfs)
    /\ Exists(DestTree, <<<<".","g","i","t">>, <<"H","E","A","D">>>>)
    /\ Exists(DestTree, <<<<"s","r","c">>, name, <<"m","a","i","n",".","p","y">>>>)
    /\ Exists(DestTree, <<<<".","g","i","t","i","g","n","o","r","e">>>>)

\* C28: a run whose NAME is the template's module name M does not fail
\* once the copy is complete and ends in Done; in Done src/NAME holds what
\* was copied into it, and the manifest's scripts and every file of tests
\* hold the text they had in the template, read and written back.
C28_SameNameStillDone ==
    LET M == module_of(template)
        src == <<<<"s","r","c">>, M>>
        p == <<<<"p","y","p","r","o","j","e","c","t",".","t","o","m","l">>>>
    IN template \in _choices /\ name = M /\ "copy_template" \in Range(log)
         /\ ~(pc = "Failed" /\ failedAt = "Copying")
       => /\ pc # "Failed"
          /\ pc = "Done" =>
               /\ Under(DestTree, src) = {s \in Under(tmpl, src) : Unexcluded(s.path)}
               /\ Exists(tmpl, src) => IsDir(DestTree, src)
               /\ \A s \in Below(tmpl, <<<<"t","e","s","t","s">>>>) :
                     s.kind = "file" /\ Unexcluded(s.path)
                       => \E e \in DestTree :
                             /\ e.path = s.path
                             /\ e.data \in {s.data, write_text(read_text(s.data))}
               /\ Exists(tmpl, p) =>
                     ManifestOf(DestTree, p)
                       = write_text(re_sub_name(read_text(ManifestOf(tmpl, p)), name))

\* C29: the keys that the command line accepts are the keys of
\* _template_map, each of them mapped to a pair; a run that got past the
\* option parsing holds such a key, and the lookup of its descriptor does
\* not fail.
C29_AcceptedKeysHaveDescriptors ==
    /\ _choices = DOMAIN _template_map
    /\ \A k \in _choices : Len(_template_map[k]) = 2
    /\ pc # "Idle" /\ ~(pc = "Failed" /\ failedAt = "Idle")
         => template \in DOMAIN _template_map
    /\ ~(pc = "Failed" /\ failedAt = "Locating" /\ Last(out) = "Traceback")

C29_Witness ==
    /\ pc = "Done"
    /\ template = "llama"
    /\ _template_map[template] = <<"template-llama", <<"l","l","a","m","a","_","a","p","p">>>>
    /\ name # module_of(template)
    /\ Exists(DestTree, <<<<"s","r","c">>, name, <<"m","a","i","n",".","p","y">>>>)
    /\ ~Exists(DestTree, <<<<"s","r","c">>, <<"l","l","a","m","a","_","a","p","p">>>>)
====
